---- MODULE Spec2Model ----
(***************************************************************************)
(* A model of JessonChan/gop: the Go-import dependency scanner of          *)
(* x/gopdeps (ImportsParser.ParseGoImport, importGo, canonicalGo,          *)
(* goToString) and the exit-code bookkeeping of cmd/qfmt.                  *)
(*                                                                         *)
(* A Go string is modelled as the sequence of its bytes, each a string:    *)
(* "./a" is <<".", "/", "a">>.  The bytes that cannot be written as        *)
(* themselves have names: BQ, SQ, LF, CR, BEL, x80.                        *)
(***************************************************************************)
EXTENDS Integers, Sequences, FiniteSets

\* ------------------------------------------------------------------------
\* Bounds of the model.

\* most import declarations in one file
MaxImports == 2
\* most ParseGoImport calls a caller makes on one parser
MaxCalls == 2
\* longest raw import path given to canonicalGo in SpecCanon
MaxPathLen == 5
\* longest module root path in SpecCanon
MaxModLen == 3
\* longest second path compared with the first in C4
MaxPeerLen == 3
\* longest literal text given to goToString in SpecLit
MaxLitLen == 4
\* most digits after the letter of a numeric escape in SpecLit
MaxEscLen == 4
\* most digits after the letter of a \U escape in SpecLit
MaxWideLen == 8
\* most bytes between the quotes of a literal of raw bytes in SpecLit
MaxByteLen == 3
\* most paths on the command line of qfmt
MaxArgs == 3
\* most files filepath.Walk visits in one directory
MaxDirFiles == 2

\* ------------------------------------------------------------------------
\* State.

VARIABLES
    mod,       \* p.mod.Path(): the root import path of the owning module
    fs,        \* what parser.ParseFile yields for each file name
    imports,   \* p.imports of each ImportsParser: the set of its keys
    pc,        \* where each parser is: "idle", "loop" (in the range loop
               \* of ParseGoImport) or "panic" (goToString panicked)
    gopfile,   \* the file of each parser's current or last call
    idx,       \* each parser's position in f.Imports
    err,       \* what each parser's last completed call returned:
               \* "nil", "error", or "none" before any
    script,    \* the calls the caller has yet to make: <<parser, file>>
    okfiles,   \* history: the files whose call returned nil
    start,     \* history: p.imports when the current or last call began
    prev,      \* history: the file of the call before the current one
    rawPath,   \* SpecCanon: the raw import path given to canonicalGo
    canon,     \* SpecCanon: what canonicalGo returned, {} before the call
    lit,       \* SpecLit: the *ast.BasicLit given to goToString
    res,       \* SpecLit: how goToString ended, {} before the call
    write,     \* qfmt: the -w flag
    paths,     \* qfmt: flag.Args(), each path by what os.Stat finds
    argi,      \* qfmt: the loop index i of qfmtMain
    fpc,       \* qfmt: "main", "walk" (inside filepath.Walk) or "exit"
    visited,   \* qfmt: the files filepath.Walk has visited in this walk
    exitCode,  \* qfmt: the exitCode variable
    reported,  \* qfmt history: an error was printed in this run
    rewritten  \* qfmt history: ioutil.WriteFile rewrote a file in this run

parserVars == <<fs, imports, pc, gopfile, idx, err, script, okfiles, start, prev>>
canonVars == <<rawPath, canon>>
litVars == <<lit, res>>
fmtVars == <<write, paths, argi, fpc, visited, exitCode, reported, rewritten>>
vars == <<mod, parserVars, canonVars, litVars, fmtVars>>

\* ------------------------------------------------------------------------
\* Strings.

Dot == "."
Slash == "/"

\* the characters import paths and module paths are made of
PathChars == {Dot, Slash, "a"}

\* all strings over alphabet A of length at most n
StringsUpTo(A, n) == UNION {[1..k -> A] : k \in 0..n}

\* strings.HasPrefix(s, prefix)
HasPrefix(s, prefix) ==
    /\ Len(s) >= Len(prefix)
    /\ SubSeq(s, 1, Len(prefix)) = prefix

RECURSIVE SplitFrom(_, _, _)
\* the slash-separated components of s from index i on, cur being the
\* component read so far
SplitFrom(s, i, cur) ==
    IF i > Len(s) THEN <<cur>>
    ELSE IF s[i] = Slash THEN <<cur>> \o SplitFrom(s, i + 1, <<>>)
    ELSE SplitFrom(s, i + 1, Append(cur, s[i]))

\* the slash-separated components of s; the empty string has none
Components(s) == IF s = <<>> THEN <<>> ELSE SplitFrom(s, 1, <<>>)

\* a module root path as p.mod.Path() gives it: a non-empty slash-separated
\* path, no component of it empty, . or ..
IsModuleRoot(m) ==
    /\ m # <<>>
    /\ \A i \in 1..Len(Components(m)) :
          Components(m)[i] \notin {<<>>, <<Dot>>, <<Dot, Dot>>}

\* ------------------------------------------------------------------------
\* path.Clean and path.Join of the Go standard library, as called by
\* canonicalGo.  Clean works on a buffer out (lazybuf) with a read index r
\* over the path and the index dotdot below which out may not backtrack.

RECURSIVE CleanBack(_, _, _)
\* for out.w > dotdot && out.index(out.w) != '/' { out.w-- }
CleanBack(out, w, dotdot) ==
    IF w > dotdot /\ out[w + 1] # Slash
    THEN CleanBack(out, w - 1, dotdot)
    ELSE w

RECURSIVE CleanSeg(_, _)
\* the index after the path element starting at r
CleanSeg(path, r) ==
    IF r <= Len(path) /\ path[r] # Slash THEN CleanSeg(path, r + 1) ELSE r

RECURSIVE CleanLoop(_, _, _, _, _)
CleanLoop(path, r, out, dotdot, rooted) ==
    LET n == Len(path) IN
    IF r > n THEN out
    ELSE IF path[r] = Slash
    THEN \* empty path element
         CleanLoop(path, r + 1, out, dotdot, rooted)
    ELSE IF path[r] = Dot /\ (r = n \/ path[r + 1] = Slash)
    THEN \* . element
         CleanLoop(path, r + 1, out, dotdot, rooted)
    ELSE IF path[r] = Dot /\ path[r + 1] = Dot
                /\ (r + 1 = n \/ path[r + 2] = Slash)
    THEN \* .. element: remove to last /
         IF Len(out) > dotdot
         THEN \* can backtrack
              LET w == CleanBack(out, Len(out) - 1, dotdot) IN
              CleanLoop(path, r + 2, SubSeq(out, 1, w), dotdot, rooted)
         ELSE IF ~rooted
         THEN \* cannot backtrack, but not rooted, so append .. element
              LET o2 == (IF Len(out) > 0 THEN Append(out, Slash) ELSE out)
                            \o <<Dot, Dot>> IN
              CleanLoop(path, r + 2, o2, Len(o2), rooted)
         ELSE CleanLoop(path, r + 2, out, dotdot, rooted)
    ELSE \* real path element: add slash if needed, copy element
         LET e == CleanSeg(path, r)
             o1 == IF (rooted /\ Len(out) # 1) \/ (~rooted /\ Len(out) # 0)
                   THEN Append(out, Slash) ELSE out
         IN CleanLoop(path, e, o1 \o SubSeq(path, r, e - 1), dotdot, rooted)

\* path.Clean(path)
Clean(path) ==
    IF path = <<>> THEN <<Dot>>
    ELSE LET rooted == path[1] = Slash
             out == IF rooted
                    THEN CleanLoop(path, 2, <<Slash>>, 1, TRUE)
                    ELSE CleanLoop(path, 1, <<>>, 0, FALSE)
         IN IF out = <<>> THEN <<Dot>> ELSE out

\* path.Join(a, b): empty elements are ignored, the rest joined by slashes
\* and cleaned; the empty string when both are empty
JoinNoClean(a, b) == a \o <<Slash>> \o b
Join(a, b) ==
    IF a = <<>> /\ b = <<>> THEN <<>>
    ELSE IF a = <<>> THEN Clean(b)
    ELSE IF b = <<>> THEN Clean(a)
    ELSE Clean(a \o <<Slash>> \o b)

\* ------------------------------------------------------------------------
\* ImportsParser.canonicalGo: m is p.mod.Path().

canonicalGoJoinAll(m, pkgPath) == Join(m, pkgPath)
canonicalGoIdentity(m, pkgPath) == pkgPath
canonicalGo(m, pkgPath) ==
    IF HasPrefix(pkgPath, <<Dot>>)
    THEN Join(m, pkgPath)
    ELSE pkgPath

\* ------------------------------------------------------------------------
\* strconv.Unquote of the Go standard library, as called by goToString.
\* A result is [err, s]: err is TRUE for ErrSyntax, else s is the decoded
\* string.

\* the double quote and the backslash
DQ == "\""
BS == "\\"
\* the back quote and the single quote, by name
BQ == "BQ"
SQ == "SQ"
\* the control characters, by name: line feed, carriage return, and bell,
\* backspace, form feed, tab, vertical tab
LF == "LF"
CR == "CR"
BEL == "BEL"
BSP == "BSP"
FF == "FF"
TAB == "TAB"
VT == "VT"

\* unicode/utf8: RuneSelf, RuneError, MaxRune and the surrogate range
RuneSelf == 128
RuneError == 65533
MaxRune == 1114111
SurrogateMin == 55296
SurrogateMax == 57343

\* the bytes 0..255 by name, in order: a printable ASCII character stands
\* for itself, the quotes, the backslash and the controls above go by their
\* names, and every other byte by x and its two hexadecimal digits
ByteNames ==
    << "x00", "x01", "x02", "x03", "x04", "x05", "x06", BEL,
       BSP, TAB, LF, VT, FF, CR, "x0E", "x0F",
       "x10", "x11", "x12", "x13", "x14", "x15", "x16", "x17",
       "x18", "x19", "x1A", "x1B", "x1C", "x1D", "x1E", "x1F",
       " ", "!", DQ, "#", "$", "%", "&", SQ,
       "(", ")", "*", "+", ",", "-", ".", "/",
       "0", "1", "2", "3", "4", "5", "6", "7",
       "8", "9", ":", ";", "<", "=", ">", "?",
       "@", "A", "B", "C", "D", "E", "F", "G",
       "H", "I", "J", "K", "L", "M", "N", "O",
       "P", "Q", "R", "S", "T", "U", "V", "W",
       "X", "Y", "Z", "[", BS, "]", "^", "_",
       BQ, "a", "b", "c", "d", "e", "f", "g",
       "h", "i", "j", "k", "l", "m", "n", "o",
       "p", "q", "r", "s", "t", "u", "v", "w",
       "x", "y", "z", "{", "|", "}", "~", "x7F",
       "x80", "x81", "x82", "x83", "x84", "x85", "x86", "x87",
       "x88", "x89", "x8A", "x8B", "x8C", "x8D", "x8E", "x8F",
       "x90", "x91", "x92", "x93", "x94", "x95", "x96", "x97",
       "x98", "x99", "x9A", "x9B", "x9C", "x9D", "x9E", "x9F",
       "xA0", "xA1", "xA2", "xA3", "xA4", "xA5", "xA6", "xA7",
       "xA8", "xA9", "xAA", "xAB", "xAC", "xAD", "xAE", "xAF",
       "xB0", "xB1", "xB2", "xB3", "xB4", "xB5", "xB6", "xB7",
       "xB8", "xB9", "xBA", "xBB", "xBC", "xBD", "xBE", "xBF",
       "xC0", "xC1", "xC2", "xC3", "xC4", "xC5", "xC6", "xC7",
       "xC8", "xC9", "xCA", "xCB", "xCC", "xCD", "xCE", "xCF",
       "xD0", "xD1", "xD2", "xD3", "xD4", "xD5", "xD6", "xD7",
       "xD8", "xD9", "xDA", "xDB", "xDC", "xDD", "xDE", "xDF",
       "xE0", "xE1", "xE2", "xE3", "xE4", "xE5", "xE6", "xE7",
       "xE8", "xE9", "xEA", "xEB", "xEC", "xED", "xEE", "xEF",
       "xF0", "xF1", "xF2", "xF3", "xF4", "xF5", "xF6", "xF7",
       "xF8", "xF9", "xFA", "xFB", "xFC", "xFD", "xFE", "xFF" >>

\* the byte of a number, byte(n), and the number of a byte
Chr(n) == ByteNames[(n % 256) + 1]
CodeOf ==
    [c \in {ByteNames[n] : n \in 1..256} |->
        (CHOOSE n \in 1..256 : ByteNames[n] = c) - 1]
Code(c) == CodeOf[c]

\* unicode/utf8: ValidRune(r)
ValidRune(r) ==
    \/ 0 <= r /\ r < SurrogateMin
    \/ SurrogateMax < r /\ r <= MaxRune

\* unicode/utf8: DecodeRuneInString(s), [r, size]
DecodeRuneInString(s) ==
    LET invalid == [r |-> RuneError, size |-> 1]
        b(i) == Code(s[i])
        cont(i) == 128 <= b(i) /\ b(i) <= 191
    IN IF s = <<>> THEN [r |-> RuneError, size |-> 0]
       ELSE IF b(1) < RuneSelf THEN [r |-> b(1), size |-> 1]
       ELSE IF b(1) < 194 \/ b(1) > 244 THEN invalid
       ELSE LET size == IF b(1) < 224 THEN 2 ELSE IF b(1) < 240 THEN 3 ELSE 4
                lo == IF b(1) = 224 THEN 160 ELSE IF b(1) = 240 THEN 144 ELSE 128
                hi == IF b(1) = 237 THEN 159 ELSE IF b(1) = 244 THEN 143 ELSE 191
            IN IF Len(s) < size THEN invalid
               ELSE IF b(2) < lo \/ hi < b(2) THEN invalid
               ELSE IF size = 2
               THEN [r |-> (b(1) % 32) * 64 + (b(2) % 64), size |-> 2]
               ELSE IF ~cont(3) THEN invalid
               ELSE IF size = 3
               THEN [r |-> (b(1) % 16) * 4096 + (b(2) % 64) * 64 + (b(3) % 64),
                     size |-> 3]
               ELSE IF ~cont(4) THEN invalid
               ELSE [r |-> (b(1) % 8) * 262144 + (b(2) % 64) * 4096
                             + (b(3) % 64) * 64 + (b(4) % 64),
                     size |-> 4]

RECURSIVE ValidString(_)
\* unicode/utf8: ValidString(s)
ValidString(s) ==
    IF s = <<>> THEN TRUE
    ELSE LET d == DecodeRuneInString(s) IN
         IF d.r = RuneError /\ d.size = 1 THEN FALSE
         ELSE ValidString(SubSeq(s, d.size + 1, Len(s)))

\* unicode/utf8: the bytes AppendRune(buf, r) appends
EncodeRune(r) ==
    IF 0 <= r /\ r <= 127 THEN <<Chr(r)>>
    ELSE IF 0 <= r /\ r <= 2047
    THEN <<Chr(192 + (r \div 64)), Chr(128 + (r % 64))>>
    ELSE IF r < 0 \/ r > MaxRune \/ (SurrogateMin <= r /\ r <= SurrogateMax)
    THEN <<Chr(239), Chr(191), Chr(189)>>
    ELSE IF r <= 65535
    THEN <<Chr(224 + (r \div 4096)), Chr(128 + ((r \div 64) % 64)),
           Chr(128 + (r % 64))>>
    ELSE <<Chr(240 + (r \div 262144)), Chr(128 + ((r \div 4096) % 64)),
           Chr(128 + ((r \div 64) % 64)), Chr(128 + (r % 64))>>

\* the letters of the single-character escapes \a \b \f \n \r \t \v
EscapeLetters == {"a", "b", "f", "n", "r", "t", "v"}
EscapeValue(c) ==
    CASE c = "a" -> BEL [] c = "b" -> BSP [] c = "f" -> FF [] c = "n" -> LF
      [] c = "r" -> CR [] c = "t" -> TAB [] c = "v" -> VT

\* unhex(b): the value of a hexadecimal digit, or -1 for ok = false
unhex(c) ==
    LET b == Code(c) IN
    IF 48 <= b /\ b <= 57 THEN b - 48
    ELSE IF 97 <= b /\ b <= 102 THEN b - 97 + 10
    ELSE IF 65 <= b /\ b <= 70 THEN b - 65 + 10
    ELSE -1

\* v<<4 | x on the 32-bit rune v >= 0 and the digit x: the bit that reaches
\* the sign makes the result negative, the bits above it are lost
ShiftHex(v, x) ==
    LET low == (v % 134217728) * 16 + x IN
    IF ((v \div 134217728) % 2) = 1 THEN (low - 2147483647) - 1 ELSE low

RECURSIVE HexRun(_, _, _, _)
\* for j := 0; j < n; j++ { x, ok := unhex(s[j]) ... v = v<<4 | x } from
\* the digit j on: [ok, v]
HexRun(s, j, n, v) ==
    IF j > n THEN [ok |-> TRUE, v |-> v]
    ELSE IF unhex(s[j]) < 0 THEN [ok |-> FALSE, v |-> 0]
    ELSE HexRun(s, j + 1, n, ShiftHex(v, unhex(s[j])))

\* the first digits of the octal escapes
OctalDigits == {"0", "1", "2", "3", "4", "5", "6", "7"}

ErrSyntax == [err |-> TRUE, s |-> <<>>]
Unquoted(str) == [err |-> FALSE, s |-> str]

\* contains(s, c)
Contains(s, c) == \E i \in 1..Len(s) : s[i] = c

RECURSIVE IndexFrom(_, _, _)
\* the least index i >= from with s[i] = c, or 0
IndexFrom(s, c, from) ==
    IF from > Len(s) THEN 0
    ELSE IF s[from] = c THEN from
    ELSE IndexFrom(s, c, from + 1)

RECURSIVE StripCR(_)
\* the raw string with its carriage returns removed
StripCR(s) ==
    IF s = <<>> THEN <<>>
    ELSE IF Head(s) = CR THEN StripCR(Tail(s))
    ELSE <<Head(s)>> \o StripCR(Tail(s))

\* strconv.UnquoteChar(s, quote) for a non-empty s:
\* [err, value, multibyte, tail], value the rune as a number
UnquoteChar(s, quote) ==
    LET bad == [err |-> TRUE, value |-> 0, multibyte |-> FALSE, tail |-> <<>>]
        ok(v, m, t) ==
            [err |-> FALSE, value |-> v, multibyte |-> m, tail |-> t]
    IN
    IF s[1] = quote /\ quote \in {SQ, DQ} THEN bad
    ELSE IF Code(s[1]) >= RuneSelf
    THEN LET d == DecodeRuneInString(s) IN
         ok(d.r, TRUE, SubSeq(s, d.size + 1, Len(s)))
    ELSE IF s[1] # BS THEN ok(Code(s[1]), FALSE, Tail(s))
    ELSE IF Len(s) <= 1 THEN bad
    ELSE LET c == s[2]
             rest == SubSeq(s, 3, Len(s))
         IN IF c \in EscapeLetters
            THEN ok(Code(EscapeValue(c)), FALSE, rest)
            ELSE IF c \in {"x", "u", "U"}
            THEN LET n == IF c = "x" THEN 2 ELSE IF c = "u" THEN 4 ELSE 8 IN
                 IF Len(rest) < n THEN bad
                 ELSE LET h == HexRun(rest, 1, n, 0)
                          after == SubSeq(rest, n + 1, Len(rest))
                      IN IF ~h.ok THEN bad
                         ELSE IF c = "x"
                         THEN \* single-byte string, possibly not UTF-8
                              ok(h.v, FALSE, after)
                         ELSE IF ~ValidRune(h.v) THEN bad
                         ELSE ok(h.v, TRUE, after)
            ELSE IF c \in OctalDigits
            THEN IF Len(rest) < 2 THEN bad
                 ELSE LET x1 == Code(rest[1]) - 48
                          x2 == Code(rest[2]) - 48
                          v == ((Code(c) - 48) * 8 + x1) * 8 + x2
                      IN IF x1 < 0 \/ x1 > 7 \/ x2 < 0 \/ x2 > 7 THEN bad
                         ELSE IF v > 255 THEN bad
                         ELSE ok(v, FALSE, SubSeq(rest, 3, Len(rest)))
            ELSE IF c = BS THEN ok(Code(BS), FALSE, rest)
            ELSE IF c \in {SQ, DQ}
            THEN IF c # quote THEN bad ELSE ok(Code(c), FALSE, rest)
            ELSE bad

\* what the loop appends for a decoded character: byte(r) when
\* r < utf8.RuneSelf || !multibyte, else the UTF-8 encoding of r
Appended(u) ==
    IF u.value < RuneSelf \/ ~u.multibyte THEN <<Chr(u.value)>>
    ELSE EncodeRune(u.value)

RECURSIVE UnquoteLoop(_, _, _)
\* the loop over a quoted string with escape sequences: in is what is left
\* after the opening quote, buf what is decoded; [err, s, rem]
UnquoteLoop(in, buf, quote) ==
    IF in # <<>> /\ in[1] # quote
    THEN LET u == UnquoteChar(in, quote) IN
         IF in[1] = LF \/ u.err THEN [err |-> TRUE, s |-> <<>>, rem |-> <<>>]
         ELSE IF quote = SQ
         THEN \* single quoted strings must be a single character
              [err |-> FALSE, s |-> buf \o Appended(u), rem |-> u.tail]
         ELSE UnquoteLoop(u.tail, buf \o Appended(u), quote)
    ELSE [err |-> FALSE, s |-> buf, rem |-> in]

\* strconv.Unquote(in)
Unquote(in) ==
    IF Len(in) < 2 THEN ErrSyntax
    ELSE LET quote == in[1]
             end == IndexFrom(in, quote, 2)
         IN IF end = 0 THEN ErrSyntax
            ELSE IF quote = BQ
            THEN IF end # Len(in) THEN ErrSyntax
                 ELSE Unquoted(StripCR(SubSeq(in, 2, end - 1)))
            ELSE IF quote \in {DQ, SQ}
            THEN LET inner == SubSeq(in, 2, end - 1)
                     plain == ~Contains(inner, BS) /\ ~Contains(inner, LF)
                     d == DecodeRuneInString(inner)
                     valid == IF quote = DQ THEN ValidString(inner)
                              ELSE /\ d.size = Len(inner)
                                   /\ (d.r # RuneError \/ d.size # 1)
                 IN IF plain /\ valid
                    THEN IF end # Len(in) THEN ErrSyntax ELSE Unquoted(inner)
                    ELSE LET l == UnquoteLoop(Tail(in), <<>>, quote) IN
                         IF l.err THEN ErrSyntax
                         ELSE IF ~(l.rem # <<>> /\ l.rem[1] = quote)
                         THEN ErrSyntax
                         ELSE IF Len(l.rem) > 1 THEN ErrSyntax
                         ELSE Unquoted(l.s)
            ELSE ErrSyntax

\* ------------------------------------------------------------------------
\* goToString: l is an *ast.BasicLit, [Kind, Value].  The result is
\* [kind |-> "return", s] or the panic.

tokenSTRING == "STRING"
\* the kinds of literal token: token.INT, token.CHAR, token.STRING
Kinds == {"INT", "CHAR", tokenSTRING}

Panic == [kind |-> "panic"]
Return(str) == [kind |-> "return", s |-> str]

goToStringAnyKind(l) ==
    IF ~Unquote(l.Value).err
    THEN Return(Unquote(l.Value).s)
    ELSE Panic
goToString(l) ==
    IF l.Kind = tokenSTRING /\ ~Unquote(l.Value).err
    THEN Return(Unquote(l.Value).s)
    ELSE Panic

\* ------------------------------------------------------------------------
\* The ImportsParser: ParseGoImport, importGo.

\* the ImportsParser instances and the files given to them
Parsers == {"p", "q"}
FileNames == {"A", "B"}

\* all sequences over S of length at most n
SeqsUpTo(S, n) == UNION {[1..k -> S] : k \in 0..n}

\* a string-literal token with the given text
StringLit(text) == [Kind |-> tokenSTRING, Value |-> text]

\* the import path literals of the files: "\x61", which is a, "./a",
\* "../../a" and the raw string literal of a/a
ImportLits ==
    { StringLit(<<DQ, BS, "x", "6", "1", DQ>>),
      StringLit(<<DQ, Dot, Slash, "a", DQ>>),
      StringLit(<<DQ, Dot, Dot, Slash, Dot, Dot, Slash, "a", DQ>>),
      StringLit(<<BQ, "a", Slash, "a", BQ>>) }

\* the literals that stand beside the faulty ones in SpecFault: "./a", "a"
SoundLits ==
    { StringLit(<<DQ, Dot, Slash, "a", DQ>>), StringLit(<<DQ, "a", DQ>>) }

\* tokens go/parser never leaves in an import declaration of a file it
\* parsed without error: an integer literal, a bad escape sequence
FaultyLits ==
    { [Kind |-> "INT", Value |-> <<"1">>],
      StringLit(<<DQ, BS, Dot, DQ>>) }

\* what parser.ParseFile(p.fset, gopfile, nil, parser.ImportsOnly) yields:
\* a file with its import declarations, or an error beside whatever was
\* parsed before it
ParsedFiles(lits) ==
    {[err |-> FALSE, Imports |-> i] : i \in SeqsUpTo(lits, MaxImports)}
FailedParses ==
    { [err |-> TRUE, Imports |-> <<>>],
      [err |-> TRUE, Imports |-> <<StringLit(<<DQ, Dot, Slash, "a", DQ>>)>>] }

\* the module root paths of the parser specifications: a and a/a
ModulePaths == {<<"a">>, <<"a", Slash, "a">>}

\* if err != nil { return }
ParseFailedIgnored(f) == FALSE
ParseFailed(f) == f.err

\* p.imports[pkgPath] = struct{}{}
SetKeyOnly(keys, pkgPath) == {pkgPath}
SetKeySkip(keys, pkgPath) == keys
SetKeyToggle(keys, pkgPath) ==
    IF pkgPath \in keys THEN keys \ {pkgPath} ELSE keys \cup {pkgPath}
SetKey(keys, pkgPath) == keys \cup {pkgPath}

\* ParseGoImport(gopfile) up to its range loop: the parser o and the file
\* are those of the caller's next call.  The caller is single-threaded, so
\* no call is under way; a caller that recovered from a panic calls again.
ParseGoImport(o) ==
    /\ \A o2 \in Parsers : pc[o2] \in {"idle", "panic"}
    /\ script # <<>>
    /\ Head(script)[1] = o
    /\ LET name == Head(script)[2]
           f == fs[name]
       IN /\ gopfile' = [gopfile EXCEPT ![o] = name]
          /\ script' = Tail(script)
          /\ start' = [start EXCEPT ![o] = imports[o]]
          /\ prev' = [prev EXCEPT ![o] = IF pc[o] = "idle" THEN gopfile[o] ELSE "none"]
          /\ idx' = [idx EXCEPT ![o] = 1]
          /\ IF ParseFailed(f)
             THEN /\ pc' = [pc EXCEPT ![o] = "idle"]
                  /\ err' = [err EXCEPT ![o] = "error"]
             ELSE /\ pc' = [pc EXCEPT ![o] = "loop"]
                  /\ UNCHANGED err
    /\ UNCHANGED <<mod, fs, imports, okfiles, canonVars, litVars, fmtVars>>

\* one iteration of the range loop: p.importGo(imp)
importGo(o) ==
    /\ pc[o] = "loop"
    /\ idx[o] <= Len(fs[gopfile[o]].Imports)
    /\ LET spec == fs[gopfile[o]].Imports[idx[o]]
           str == goToString(spec)
       IN IF str.kind = "panic"
          THEN /\ pc' = [pc EXCEPT ![o] = "panic"]
               /\ UNCHANGED <<imports, idx>>
          ELSE /\ imports' = [imports EXCEPT
                      ![o] = SetKey(imports[o], canonicalGo(mod, str.s))]
               /\ idx' = [idx EXCEPT ![o] = idx[o] + 1]
               /\ UNCHANGED pc
    /\ UNCHANGED <<mod, fs, gopfile, err, script, okfiles, start, prev,
                   canonVars, litVars, fmtVars>>

\* the return after the range loop, err being nil
ReturnNil(o) ==
    /\ pc[o] = "loop"
    /\ idx[o] > Len(fs[gopfile[o]].Imports)
    /\ pc' = [pc EXCEPT ![o] = "idle"]
    /\ err' = [err EXCEPT ![o] = "nil"]
    /\ okfiles' = [okfiles EXCEPT ![o] = okfiles[o] \cup {gopfile[o]}]
    /\ UNCHANGED <<mod, fs, imports, gopfile, idx, script, start, prev,
                   canonVars, litVars, fmtVars>>

\* a new ImportsParser for every instance: no imports, no call made
NewParsers ==
    /\ imports = [o \in Parsers |-> {}]
    /\ pc = [o \in Parsers |-> "idle"]
    /\ gopfile = [o \in Parsers |-> "none"]
    /\ idx = [o \in Parsers |-> 1]
    /\ err = [o \in Parsers |-> "none"]
    /\ okfiles = [o \in Parsers |-> {}]
    /\ start = [o \in Parsers |-> {}]
    /\ prev = [o \in Parsers |-> "none"]

\* the variables of the other specifications, at rest
NoCanon == rawPath = <<>> /\ canon = {}
NoLit == lit = StringLit(<<>>) /\ res = {}
NoFmt ==
    /\ write = FALSE /\ paths = <<>> /\ argi = 0 /\ fpc = "exit"
    /\ visited = 0 /\ exitCode = 0 /\ reported = FALSE /\ rewritten = FALSE
NoParser ==
    /\ NewParsers
    /\ fs = [n \in FileNames |-> [err |-> TRUE, Imports |-> <<>>]]
    /\ script = <<>>

\* Spec: one parser p, its module, the files as go/parser parses them, and
\* a caller that makes up to MaxCalls calls
Init ==
    /\ mod \in ModulePaths
    /\ fs \in [FileNames -> ParsedFiles(ImportLits) \cup FailedParses]
    /\ NewParsers
    /\ script \in SeqsUpTo({"p"} \X FileNames, MaxCalls)
    /\ NoCanon /\ NoLit /\ NoFmt

Next == \E o \in Parsers : ParseGoImport(o) \/ importGo(o) \/ ReturnNil(o)

Spec == Init /\ [][Next]_vars

\* SpecFault: as Spec, with a go/parser that may also leave a faulty token
\* in an import declaration
InitFault ==
    /\ mod \in ModulePaths
    /\ fs \in [FileNames -> ParsedFiles(FaultyLits \cup SoundLits)
                                \cup FailedParses]
    /\ NewParsers
    /\ script \in SeqsUpTo({"p"} \X FileNames, MaxCalls)
    /\ NoCanon /\ NoLit /\ NoFmt

SpecFault == InitFault /\ [][Next]_vars

\* SpecOrder: two parsers of one module; both parse file c first, then p
\* parses a and b, and q parses b and a
InitOrder ==
    /\ mod \in ModulePaths
    /\ fs \in [FileNames -> ParsedFiles(ImportLits) \cup FailedParses]
    /\ NewParsers
    /\ \E a, b, c \in FileNames :
          script = << <<"p", c>>, <<"p", a>>, <<"p", b>>,
                      <<"q", c>>, <<"q", b>>, <<"q", a>> >>
    /\ NoCanon /\ NoLit /\ NoFmt

SpecOrder == InitOrder /\ [][Next]_vars

\* ------------------------------------------------------------------------
\* SpecCanon: canonicalGo as a pure function of the module root path, drawn
\* from all short module roots, and the raw import path, drawn from all
\* short strings.

InitCanon ==
    /\ mod \in {m \in StringsUpTo(PathChars, MaxModLen) : IsModuleRoot(m)}
    /\ rawPath \in StringsUpTo(PathChars, MaxPathLen)
    /\ canon = {}
    /\ NoParser /\ NoLit /\ NoFmt

\* one call of p.canonicalGo(rawPath)
CallCanonicalGo ==
    /\ canon = {}
    /\ canon' = {canonicalGo(mod, rawPath)}
    /\ UNCHANGED <<mod, rawPath, parserVars, litVars, fmtVars>>

NextCanon == CallCanonicalGo

SpecCanon == InitCanon /\ [][NextCanon]_vars

\* ------------------------------------------------------------------------
\* SpecLit: goToString as a pure function of the literal token, its kind
\* and its text drawn from all short texts over the quote characters, the
\* backslash, a letter and the line controls, from the quoted numeric
\* escapes and from the quoted texts of raw bytes.

LitChars == {DQ, BQ, SQ, BS, "a", LF, CR}

\* the characters after the backslash of an escape: x, u, the octal digits
\* 1 and 4, and 8, which begins no escape
EscLetters == {"x", "u", "1", "4", "8"}
\* the digits of the escapes; g is no digit
EscDigits == {"0", "1", "6", "d", "g"}
\* the digits of the \U escapes
WideDigits == {"0", "1", "8"}
\* bytes of UTF-8 sequences, and the backslash beside them
RawBytes == {"xC3", "xA9", "xED", BS}

\* a literal quoted by q with the given body, and one with a after it
Quoted(q, body) == <<q>> \o body \o <<q>>
QuotedThenA(q, body) == <<q>> \o body \o <<"a", q>>

\* the texts of the literals given to goToString
LitTexts ==
    StringsUpTo(LitChars, MaxLitLen)
    \cup {Quoted(q, <<BS, c>> \o d) :
              q \in {DQ, SQ}, c \in EscLetters,
              d \in StringsUpTo(EscDigits, MaxEscLen)}
    \cup {QuotedThenA(q, <<BS, c>> \o d) :
              q \in {DQ, SQ}, c \in EscLetters,
              d \in StringsUpTo(EscDigits, MaxEscLen)}
    \cup {Quoted(DQ, <<BS, "U">> \o d) :
              d \in StringsUpTo(WideDigits, MaxWideLen)}
    \cup {Quoted(q, b) :
              q \in {DQ, SQ}, b \in StringsUpTo(RawBytes, MaxByteLen)}

InitLit ==
    /\ lit \in [Kind : Kinds, Value : LitTexts]
    /\ res = {}
    /\ mod = <<"a">>
    /\ NoParser /\ NoCanon /\ NoFmt

\* one call of goToString(lit)
CallGoToString ==
    /\ res = {}
    /\ res' = {goToString(lit)}
    /\ UNCHANGED <<lit, mod, parserVars, canonVars, fmtVars>>

NextLit == CallGoToString

SpecLit == InitLit /\ [][NextLit]_vars

\* ------------------------------------------------------------------------
\* qfmt: processFile, visitFile, report, qfmtMain, main.

\* what os.Stat finds for a path: an error, a directory, a file
PathKinds == {"missing", "dir", "file"}

\* what happens to one file: the step of processFile that fails ("none"
\* when none does), whether that error satisfies os.IsNotExist, and whether
\* format.Source changes the source
Stages == {"none", "open", "stat", "read", "format", "backup", "write",
           "remove", "out"}
Outcomes ==
    {o \in [fail : Stages, notExist : BOOLEAN, changed : BOOLEAN] :
        o.notExist => o.fail \in {"open", "backup", "write", "remove"}}

\* the error value of a failed step
ErrorOf(o) == IF o.notExist THEN "notexist" ELSE "error"

\* processFile(filename, in, out, stdin) under flag w: the error it
\* returns, whether it set exitCode to 1, and whether it rewrote the file
processFile(o, w, stdin) ==
    IF ~stdin /\ o.fail \in {"open", "stat"}
    THEN [err |-> ErrorOf(o), formatted |-> FALSE, wrote |-> FALSE]
    ELSE IF o.fail \in {"read", "format"}
    THEN [err |-> ErrorOf(o), formatted |-> FALSE, wrote |-> FALSE]
    ELSE IF w /\ o.changed
    THEN IF o.fail \in {"backup", "write"}
         THEN [err |-> ErrorOf(o), formatted |-> TRUE, wrote |-> FALSE]
         ELSE IF o.fail = "remove"
         THEN [err |-> ErrorOf(o), formatted |-> TRUE, wrote |-> TRUE]
         ELSE [err |-> "nil", formatted |-> TRUE, wrote |-> TRUE]
    ELSE IF ~w /\ o.fail = "out"
    THEN [err |-> ErrorOf(o), formatted |-> FALSE, wrote |-> FALSE]
    ELSE [err |-> "nil", formatted |-> FALSE, wrote |-> FALSE]

\* exitCode after processFile returned r and report was called or not
ExitCodeAfter(code, r, reports) ==
    IF reports THEN 2 ELSE IF r.formatted THEN 1 ELSE code

\* qfmtMain with no path: standard input
Stdin ==
    /\ fpc = "main"
    /\ Len(paths) = 0
    /\ IF write
       THEN \* error: cannot use -w with standard input
            /\ exitCode' = 2
            /\ reported' = TRUE
            /\ UNCHANGED rewritten
       ELSE \E o \in Outcomes :
               LET r == processFile(o, write, TRUE) IN
               /\ exitCode' = ExitCodeAfter(exitCode, r, r.err # "nil")
               /\ reported' = (reported \/ r.err # "nil")
               /\ rewritten' = (rewritten \/ r.wrote)
    /\ fpc' = "exit"
    /\ UNCHANGED <<write, paths, argi, visited, mod, parserVars, canonVars,
                   litVars>>

\* one iteration of the loop of qfmtMain over the paths
Arg ==
    /\ fpc = "main"
    /\ argi < Len(paths)
    /\ LET kind == paths[argi + 1] IN
       IF kind = "missing"
       THEN \* case err != nil: report(err)
            /\ exitCode' = 2
            /\ reported' = TRUE
            /\ argi' = argi + 1
            /\ UNCHANGED <<fpc, visited, rewritten>>
       ELSE IF kind = "dir"
       THEN \* walkDir(path)
            /\ fpc' = "walk"
            /\ visited' = 0
            /\ UNCHANGED <<exitCode, reported, rewritten, argi>>
       ELSE \E o \in Outcomes :
               LET r == processFile(o, write, FALSE) IN
               /\ exitCode' = ExitCodeAfter(exitCode, r, r.err # "nil")
               /\ reported' = (reported \/ r.err # "nil")
               /\ rewritten' = (rewritten \/ r.wrote)
               /\ argi' = argi + 1
               /\ UNCHANGED <<fpc, visited>>
    /\ UNCHANGED <<write, paths, mod, parserVars, canonVars, litVars>>

\* visitFile(path, f, err), called by filepath.Walk for one entry: walkErr
\* is the error Walk met at the entry, gop is isGopFile(f)
visitFile ==
    /\ fpc = "walk"
    /\ visited < MaxDirFiles
    /\ \E walkErr \in {"nil", "error", "notexist"}, gop \in BOOLEAN,
          o \in Outcomes :
          LET process == walkErr = "nil" /\ gop
              r == IF process THEN processFile(o, write, FALSE)
                   ELSE [err |-> walkErr, formatted |-> FALSE, wrote |-> FALSE]
              reports == r.err = "error"
          IN /\ exitCode' = ExitCodeAfter(exitCode, r, reports)
             /\ reported' = (reported \/ reports)
             /\ rewritten' = (rewritten \/ r.wrote)
    /\ visited' = visited + 1
    /\ UNCHANGED <<write, paths, argi, fpc, mod, parserVars, canonVars,
                   litVars>>

\* filepath.Walk returns: the directory has no more entries
WalkDone ==
    /\ fpc = "walk"
    /\ fpc' = "main"
    /\ argi' = argi + 1
    /\ UNCHANGED <<write, paths, visited, exitCode, reported, rewritten, mod,
                   parserVars, canonVars, litVars>>

\* qfmtMain returns after the last path and main calls os.Exit(exitCode)
Exit ==
    /\ fpc = "main"
    /\ Len(paths) > 0
    /\ argi = Len(paths)
    /\ fpc' = "exit"
    /\ UNCHANGED <<write, paths, argi, visited, exitCode, reported,
                   rewritten, mod, parserVars, canonVars, litVars>>

InitFmt ==
    /\ write \in BOOLEAN
    /\ paths \in SeqsUpTo(PathKinds, MaxArgs)
    /\ argi = 0
    /\ fpc = "main"
    /\ visited = 0
    /\ exitCode = 0
    /\ reported = FALSE
    /\ rewritten = FALSE
    /\ mod = <<"a">>
    /\ NoParser /\ NoCanon /\ NoLit

NextFmt == Stdin \/ Arg \/ visitFile \/ WalkDone \/ Exit

SpecFmt == InitFmt /\ [][NextFmt]_vars

\* ------------------------------------------------------------------------
\* Claims about qfmt.

\* C9: the exit code of a run is 2 if an error was reported at any point
\* of it, otherwise 1 if a file was rewritten under -w, otherwise 0.
C9_ExitCodeWorstOutcome ==
    fpc = "exit" =>
        exitCode = (IF reported THEN 2 ELSE IF rewritten THEN 1 ELSE 0)

\* ------------------------------------------------------------------------
\* Reference notions the claims are stated in.

\* the digits in the order of their values, in both cases
LowerDigits ==
    <<"0", "1", "2", "3", "4", "5", "6", "7", "8", "9",
      "a", "b", "c", "d", "e", "f">>
UpperDigits ==
    <<"0", "1", "2", "3", "4", "5", "6", "7", "8", "9",
      "A", "B", "C", "D", "E", "F">>

\* c is a digit of the base
IsDigit(c, base) ==
    \E v \in 1..base : c \in {LowerDigits[v], UpperDigits[v]}
DigitValue(c) ==
    (CHOOSE v \in 1..16 : c \in {LowerDigits[v], UpperDigits[v]}) - 1

\* ds is a numeral of n digits of the base
IsNumeral(ds, n, base) ==
    Len(ds) = n /\ \A k \in 1..n : IsDigit(ds[k], base)

RECURSIVE Numeral(_, _)
\* the number a numeral denotes
Numeral(ds, base) ==
    IF ds = <<>> THEN 0
    ELSE Numeral(SubSeq(ds, 1, Len(ds) - 1), base) * base
             + DigitValue(ds[Len(ds)])

\* v is a Unicode scalar value: a code point that is no surrogate
IsScalar(v) ==
    (0 <= v /\ v <= 55295) \/ (57344 <= v /\ v <= 1114111)

\* the escape sequence a body begins with, as its length and the bytes it
\* denotes in a literal quoted by q: a backslash before an escape letter, a
\* backslash or the quote; \x and two hexadecimal digits or \ and three
\* octal digits, a byte; \u and four or \U and eight hexadecimal digits, the
\* UTF-8 encoding of a scalar value.  None when the body begins with none.
EscapeAt(body, q) ==
    LET ds(from, n) == IF Len(body) >= from + n - 1
                       THEN SubSeq(body, from, from + n - 1) ELSE <<>>
        one(k, out) == {[len |-> k, out |-> out]}
    IN IF Len(body) < 2 THEN {}
       ELSE IF body[2] \in EscapeLetters
       THEN one(2, <<EscapeValue(body[2])>>)
       ELSE IF body[2] \in {BS, q} THEN one(2, <<body[2]>>)
       ELSE IF body[2] = "x" /\ IsNumeral(ds(3, 2), 2, 16)
       THEN one(4, <<Chr(Numeral(ds(3, 2), 16))>>)
       ELSE IF body[2] = "u" /\ IsNumeral(ds(3, 4), 4, 16)
       THEN IF IsScalar(Numeral(ds(3, 4), 16))
            THEN one(6, EncodeRune(Numeral(ds(3, 4), 16))) ELSE {}
       ELSE IF body[2] = "U" /\ IsNumeral(ds(3, 8), 8, 16)
       THEN IF ds(3, 2) = <<"0", "0">> /\ IsScalar(Numeral(ds(5, 6), 16))
            THEN one(10, EncodeRune(Numeral(ds(5, 6), 16))) ELSE {}
       ELSE IF IsNumeral(ds(2, 3), 3, 8) /\ Numeral(ds(2, 3), 8) <= 255
       THEN one(4, <<Chr(Numeral(ds(2, 3), 8))>>)
       ELSE {}

RECURSIVE Items(_, _)
\* the decodings of the body of a literal quoted by q as a run of items,
\* each the bytes of one character or escape sequence: an escape sequence,
\* or a character other than the quote, the backslash and the line feed,
\* where a byte that begins no UTF-8 sequence reads as U+FFFD.  One run, or
\* none when the body is no such run.
Items(body, q) ==
    IF body = <<>> THEN {<<>>}
    ELSE IF body[1] = BS
    THEN UNION {{<<e.out>> \o r :
                    r \in Items(SubSeq(body, e.len + 1, Len(body)), q)} :
                e \in EscapeAt(body, q)}
    ELSE IF body[1] \in {q, LF} THEN {}
    ELSE LET d == DecodeRuneInString(body) IN
         {<<EncodeRune(d.r)>> \o r :
             r \in Items(SubSeq(body, d.size + 1, Len(body)), q)}

RECURSIVE Flat(_)
\* the bytes of a run of items
Flat(items) ==
    IF items = <<>> THEN <<>> ELSE Head(items) \o Flat(Tail(items))

NotCR(c) == c # CR

\* the decodings of a quoted literal by the grammar of Go literals: a raw
\* string between back quotes, an interpreted string between double quotes,
\* at most one character between single quotes
Decoded(text) ==
    IF Len(text) < 2 \/ text[1] # text[Len(text)] THEN {}
    ELSE LET body == SubSeq(text, 2, Len(text) - 1) IN
         IF text[1] = BQ
         THEN IF Contains(body, BQ) THEN {} ELSE {SelectSeq(body, NotCR)}
         ELSE IF text[1] = DQ THEN {Flat(r) : r \in Items(body, DQ)}
         ELSE IF text[1] = SQ
         THEN {Flat(r) : r \in {i \in Items(body, SQ) : Len(i) <= 1}}
         ELSE {}

\* ------------------------------------------------------------------------
\* Claims about goToString.

\* C5: goToString returns the decoded string if and only if the token's
\* kind is string literal and its text unquotes; in every other case it
\* ends in the panic, never in a value or an error value.
C5_ReturnsIffStringLiteralUnquotes ==
    \A r \in res :
        /\ r.kind = "return" <=>
               (lit.Kind = tokenSTRING /\ Decoded(lit.Value) # {})
        /\ r.kind = "return" => r.s \in Decoded(lit.Value)
        /\ r.kind # "return" => r = Panic
        /\ r.kind \notin {"nil", "error"}

\* goToString decoded the string literal "\x61" to the string a
C5_Witness ==
    /\ lit = StringLit(<<DQ, BS, "x", "6", "1", DQ>>)
    /\ res = {Return(<<"a">>)}

\* p begins with a relative-path marker: its first component is . or ..
IsRelative(p) ==
    /\ p # <<>>
    /\ Components(p)[1] \in {<<Dot>>, <<Dot, Dot>>}

RECURSIVE Resolve(_, _, _)
\* the components left after dropping empty and . components and
\* resolving each .. against the component before it; above a rooted
\* path's root .. is dropped, above a relative path's start it is kept
Resolve(comps, stack, rooted) ==
    IF comps = <<>> THEN stack
    ELSE LET c == Head(comps)
             rest == Tail(comps)
         IN IF c = <<>> \/ c = <<Dot>> THEN Resolve(rest, stack, rooted)
            ELSE IF c = <<Dot, Dot>>
            THEN IF stack # <<>> /\ stack[Len(stack)] # <<Dot, Dot>>
                 THEN Resolve(rest, SubSeq(stack, 1, Len(stack) - 1), rooted)
                 ELSE IF rooted THEN Resolve(rest, stack, rooted)
                 ELSE Resolve(rest, Append(stack, c), rooted)
            ELSE Resolve(rest, Append(stack, c), rooted)

RECURSIVE SlashJoin(_)
\* the components joined by single slashes
SlashJoin(comps) ==
    IF comps = <<>> THEN <<>>
    ELSE IF Len(comps) = 1 THEN comps[1]
    ELSE comps[1] \o <<Slash>> \o SlashJoin(Tail(comps))

\* the normalized slash-join of root m and path p
NormJoin(m, p) ==
    LET rooted == HasPrefix(m, <<Slash>>) \/ (m = <<>> /\ HasPrefix(p, <<Slash>>))
        stack == Resolve(Components(m) \o Components(p), <<>>, rooted)
    IN IF rooted THEN <<Slash>> \o SlashJoin(stack)
       ELSE IF stack = <<>> THEN <<Dot>>
       ELSE SlashJoin(stack)

\* ------------------------------------------------------------------------
\* Claims about canonicalGo.

\* C3 as stated: for every module and every raw path whose first component
\* is neither . nor .., canonicalGo returns the path unchanged.
C3_FirstComponentNotRelativeUnchanged ==
    \A c \in canon : ~IsRelative(rawPath) => c = rawPath

\* C3 as amended: for every module and every raw path that does not begin
\* with the character ., canonicalGo returns the path unchanged.
C3_NoLeadingDotUnchanged ==
    \A c \in canon : ~HasPrefix(rawPath, <<Dot>>) => c = rawPath

\* canonicalGo was called with an unclean path that does not begin with .
C3_Witness ==
    /\ canon = {<<"a", Slash, Slash, Dot, Dot>>}
    /\ rawPath = <<"a", Slash, Slash, Dot, Dot>>
    /\ mod = <<"a">>

\* C4: for every module and every relative raw path (first component . or
\* ..), canonicalGo returns the normalized slash-join of the module root and
\* the path, so every relative path with the same normalized join gets the
\* identical result.
C4_RelativeIsNormalizedJoin ==
    \A c \in canon : IsRelative(rawPath) =>
        /\ c = NormJoin(mod, rawPath)
        /\ \A q \in StringsUpTo(PathChars, MaxPeerLen) :
              (IsRelative(q) /\ NormJoin(mod, q) = NormJoin(mod, rawPath))
                  => canonicalGo(mod, q) = c

\* canonicalGo resolved ../a/./ under a/a to a/a, as ./a under a would be
C4_Witness ==
    /\ mod = <<"a", Slash, "a">>
    /\ rawPath = <<Dot, Dot, Slash, "a", Slash>>
    /\ canon = {<<"a", Slash, "a">>}

\* ------------------------------------------------------------------------
\* Claims about ParseGoImport.

\* the decoded path of an import declaration's literal
PathOf(spec) == goToString(spec).s

\* the canonical import paths of the declarations of a parsed file
ImportSet(f) ==
    {canonicalGo(mod, PathOf(f.Imports[i])) : i \in 1..Len(f.Imports)}

\* the step is the call of ParseGoImport on parser o for a file whose
\* header parse fails
FailingCall(o) ==
    /\ script # <<>>
    /\ script' = Tail(script)
    /\ Head(script)[1] = o
    /\ fs[Head(script)[2]].err

\* C1: a call of ParseGoImport on a file whose import-header parse fails
\* returns the error, and the accumulated set after the call is exactly the
\* set before it.
C1_FailedParseReturnsErrorSetUnchanged ==
    [][\A o \in Parsers :
          FailingCall(o) =>
              /\ pc'[o] = "idle"
              /\ err'[o] = "error"
              /\ imports'[o] = imports[o]]_vars

\* a call failed on a file of which ./a had been parsed, after an earlier
\* call had inserted a: a is still the only key
C1_Witness ==
    /\ pc["p"] = "idle"
    /\ err["p"] = "error"
    /\ fs[gopfile["p"]].err
    /\ fs[gopfile["p"]].Imports # <<>>
    /\ okfiles["p"] # {}
    /\ imports["p"] = {<<"a">>}

\* C2: between calls, the accumulated set of a parser is exactly the union
\* of the canonical import sets of the files whose call parsed successfully.
C2_SetIsUnionOfParsedFiles ==
    \A o \in Parsers :
        pc[o] = "idle" =>
            imports[o] = UNION {ImportSet(fs[n]) : n \in okfiles[o]}

\* a file importing "\x61" and "./a" in module a/a was parsed: the set is
\* exactly {a, a/a/a}
C2_Witness ==
    /\ mod = <<"a", Slash, "a">>
    /\ pc["p"] = "idle"
    /\ err["p"] = "nil"
    /\ okfiles["p"] = {gopfile["p"]}
    /\ fs[gopfile["p"]].Imports =
           <<StringLit(<<DQ, BS, "x", "6", "1", DQ>>),
             StringLit(<<DQ, Dot, Slash, "a", DQ>>)>>
    /\ imports["p"] = {<<"a">>, <<"a", Slash, "a", Slash, "a">>}

\* the caller has made all its calls and none is under way
AllCallsMade == script = <<>> /\ \A o \in Parsers : pc[o] = "idle"

\* C6: two parsers in the same state, one given file A then file B and the
\* other B then A, end with the same accumulated set, also when one of the
\* calls fails.
C6_OrderIndependent ==
    AllCallsMade => imports["p"] = imports["q"]

\* p parsed a failing file last and q a different, parsed file with an
\* import the first file of both did not have
C6_Witness ==
    /\ AllCallsMade
    /\ gopfile["p"] # gopfile["q"]
    /\ err["p"] = "error" /\ err["q"] = "nil"
    /\ okfiles["p"] = {gopfile["q"]}
    /\ start["q"] # imports["q"]
    /\ Cardinality(imports["p"]) = 2

\* C7: parsing the same file twice in a row leaves the set the first call
\* left, and a canonical path that several declarations yield is one key.
C7_SameFileTwiceIdempotent ==
    \A o \in Parsers :
        (pc[o] = "idle" /\ err[o] # "none" /\ prev[o] = gopfile[o]) =>
            /\ imports[o] = start[o]
            /\ Cardinality(imports[o]) <=
                   Cardinality(UNION {ImportSet(fs[n]) : n \in okfiles[o]})

\* a file whose two declarations, "./a" and the raw a/a, both yield a/a was
\* parsed twice in a row: a/a is the one key
C7_Witness ==
    /\ pc["p"] = "idle"
    /\ err["p"] = "nil"
    /\ prev["p"] = gopfile["p"]
    /\ Len(fs[gopfile["p"]].Imports) = 2
    /\ fs[gopfile["p"]].Imports[1] # fs[gopfile["p"]].Imports[2]
    /\ imports["p"] = {<<"a", Slash, "a">>}

\* C8: no step of any call (successful, failing, or aborted by a panic of
\* goToString) removes a key: the set after the step contains the set
\* before it.
C8_SetOnlyGrows ==
    [][\A o \in Parsers : imports[o] \subseteq imports'[o]]_vars

\* a call panicked after it had added a key to a set that was not empty
C8_Witness ==
    /\ pc["p"] = "panic"
    /\ start["p"] # {}
    /\ start["p"] # imports["p"]

RECURSIVE ClimbsFrom(_, _)
\* walking the components from the given depth below the top of the
\* module root arrives at the top or above it
ClimbsFrom(comps, depth) ==
    IF depth <= 0 THEN TRUE
    ELSE IF comps = <<>> THEN FALSE
    ELSE LET c == Head(comps) IN
         IF c = <<>> \/ c = <<Dot>> THEN ClimbsFrom(Tail(comps), depth)
         ELSE IF c = <<Dot, Dot>> THEN ClimbsFrom(Tail(comps), depth - 1)
         ELSE ClimbsFrom(Tail(comps), depth + 1)

\* the .. components of path p lead from the module root m up to the top
\* of m or above it: p climbs as many levels as m has components
ClimbsToRoot(m, p) ==
    ClimbsFrom(Components(p), Len(Resolve(Components(m), <<>>, FALSE)))

\* the import declarations of all files
AllImports == UNION {{f.Imports[i] : i \in 1..Len(f.Imports)} :
                        f \in {fs[n] : n \in FileNames}}

\* C10 as stated: when the module root does not begin with ., no key of
\* the accumulated set begins with . after any sequence of calls.
C10_NoKeyBeginsWithDot ==
    \A o \in Parsers : \A k \in imports[o] :
        ~HasPrefix(mod, <<Dot>>) => ~HasPrefix(k, <<Dot>>)

\* C10 as amended: when the module root does not begin with ., a key begins
\* with . only if it is the canonical path of an import that begins with .
\* and whose .. components climb to the top of the module root or above
\* it; no call ends in a fault, canonicalGo having no way to fail.
C10_DotKeyOnlyFromClimbingImport ==
    \A o \in Parsers :
        /\ pc[o] # "panic"
        /\ \A k \in imports[o] :
              (~HasPrefix(mod, <<Dot>>) /\ HasPrefix(k, <<Dot>>)) =>
                  \E spec \in AllImports :
                      /\ canonicalGo(mod, PathOf(spec)) = k
                      /\ HasPrefix(PathOf(spec), <<Dot>>)
                      /\ ClimbsToRoot(mod, PathOf(spec))

\* under module a the imports "./a" and "../../a" were parsed: a/a is
\* inside the module, ../a above it
C10_Witness ==
    /\ mod = <<"a">>
    /\ pc["p"] = "idle"
    /\ imports["p"] = {<<"a", Slash, "a">>, <<Dot, Dot, Slash, "a">>}

====
